---- MODULE Spec2Model ----
(***************************************************************************)
(* A model of sports_engine_sync.py: the form-driven login                 *)
(* (create_login_session), the sync loop of main, the form extraction of   *)
(* _submit_form and the opponent lookup _find_first_opponent.              *)
(*                                                                         *)
(* Strings that are only compared are TLA+ strings.  Strings whose         *)
(* characters matter (descriptions, summaries, titles, opponent names) are *)
(* sequences of one-character strings.  A Python dict is a function whose  *)
(* domain is its key set; an absent attribute or a Python None is None.    *)
(***************************************************************************)
EXTENDS Integers, Sequences, FiniteSets, TLC

VARIABLES
    pc,       \* position of the running call
    err,      \* the exception that ended the call, or None
    log,      \* the requests issued so far, in order, with the status each got
    resp,     \* the response the running call holds in a local (url, text)
    feed,     \* the components the calendar feed serves
    cal,      \* the calendar parsed from the feed
    idx,      \* position of the for loop of main in cal.walk('VEVENT')
    remote,   \* the events the platform has created
    run,      \* number of the current invocation of main
    exits,    \* how the earlier invocations of main ended
    session,  \* the session create_login_session returned or is working on
    web,      \* the login server the call talks to: "flow" or "any"
    arg,      \* the arguments of the function called directly
    out       \* the value the function called directly returned

vars == <<pc, err, log, resp, feed, cal, idx, remote, run, exits, session, web, arg, out>>

None == "None"

----------------------------------------------------------------------------
(* Bounds of the model.                                                    *)

MaxNodes == 4        \* elements of a document handed to _submit_form
MaxPageNodes == 2    \* elements of a page the login server serves
MaxEntries == 2      \* components of the calendar feed
MaxOpponents == 3    \* opponents in one listing
MaxRuns == 2         \* invocations of main

RECURSIVE SeqsUpTo(_, _)
SeqsUpTo(S, n) ==
    IF n = 0 THEN {<<>>}
    ELSE LET shorter == SeqsUpTo(S, n - 1)
         IN  shorter \cup {Append(s, x) : s \in {t \in shorter : Len(t) = n - 1}, x \in S}

----------------------------------------------------------------------------
(* HTTP.                                                                   *)

Statuses == {200, 500}

RaiseForStatusSwallow(status) == None

\* response.raise_for_status(): HTTPError for a 4xx or 5xx status
RaiseForStatus(status) == IF status >= 400 THEN "HTTPError" ELSE None

\* an exception propagates out of the running call; without one the call
\* goes on
NextPc(e, return_pc) == IF e = None THEN return_pc ELSE "error"

Url(origin, path) == [origin |-> origin, path |-> path]

SignInUrl == Url("https://user.sportngin.com", "/users/sign_in")
PasswordUrl == Url("https://user.sportngin.com", "/users/sign_in/password")

\* urljoin(url, action_url) for the actions of the model: an empty action is
\* the url itself, an absolute path replaces the path
UrlJoin(url, action_url) ==
    IF action_url = "" THEN url ELSE Url(url.origin, action_url)

\* session ids: no session (the default None of create_login_session), the
\* session main fetches the calendar with, the session create_login_session
\* makes, and a session a direct caller passes in
NoSession == 0
CalendarSession == 1
LoginSession == 2
CallerSession == 3

Request(sess, method, url, data, status) ==
    [sess |-> sess, method |-> method, url |-> url, data |-> data, status |-> status]

----------------------------------------------------------------------------
(* Documents.  A text is the sequence of its form start tags and inputs in *)
(* document order; html5lib.parse turns it into a tree in which an input   *)
(* is a descendant of the form opened last before it.                      *)

FormTag(attrib) == [tag |-> "form", attrib |-> attrib]
InputTag(attrib) == [tag |-> "input", attrib |-> attrib]

NoAttrib == <<>>

RECURSIVE ParseFrom(_, _, _)
ParseFrom(text, i, forms) ==
    IF i > Len(text) THEN forms
    ELSE LET node == text[i]
             n == Len(forms)
         IN  IF node.tag = "form"
             THEN ParseFrom(text, i + 1, Append(forms, [attrib |-> node.attrib, inputs |-> <<>>]))
             ELSE IF n = 0
             THEN ParseFrom(text, i + 1, forms)
             ELSE ParseFrom(text, i + 1,
                      [forms EXCEPT ![n].inputs = Append(@, node)])

\* html5lib.parse(text) followed by doc.findall('.//form'): the forms in
\* document order, each with its descendant inputs in document order
Parse(text) == ParseFrom(text, 1, <<>>)

\* form_matcher: the default accepts every form; the others accept the forms
\* with one given action
Matches(form_matcher, form) ==
    \/ form_matcher = "any"
    \/ "action" \in DOMAIN form.attrib /\ form.attrib["action"] = form_matcher

RECURSIVE FindFormFrom(_, _, _)
\* the for loop over forms with its break: 0 stands for submit_form = None
FindFormFrom(forms, form_matcher, i) ==
    IF i > Len(forms) THEN 0
    ELSE IF Matches(form_matcher, forms[i]) THEN i
    ELSE FindFormFrom(forms, form_matcher, i + 1)

FindFormOrFirst(forms, form_matcher) ==
    IF FindFormFrom(forms, form_matcher, 1) = 0 /\ Len(forms) > 0 THEN 1
    ELSE FindFormFrom(forms, form_matcher, 1)

FindForm(forms, form_matcher) == FindFormFrom(forms, form_matcher, 1)

\* dict.update / data[k] = v
DictSet(data, k, v) == (k :> v) @@ data

EmptyDict == <<>>

Truthy(value) == value # None /\ value # ""

InputValue(form_input) ==
    IF "value" \in DOMAIN form_input.attrib THEN form_input.attrib["value"] ELSE None

RECURSIVE CollectFirstWins(_, _, _)
CollectFirstWins(inputs, i, data) ==
    IF i > Len(inputs) THEN data
    ELSE LET value == InputValue(inputs[i])
         IN  IF Truthy(value) /\ "name" \in DOMAIN inputs[i].attrib
                /\ inputs[i].attrib["name"] \notin DOMAIN data
             THEN CollectFirstWins(inputs, i + 1, DictSet(data, inputs[i].attrib["name"], value))
             ELSE CollectFirstWins(inputs, i + 1, data)

RECURSIVE CollectInputs(_, _, _)
\* the for loop over inputs: data[name] = value for each input with a truthy
\* value and a name attribute
CollectInputs(inputs, i, data) ==
    IF i > Len(inputs) THEN data
    ELSE LET value == InputValue(inputs[i])
         IN  IF Truthy(value) /\ "name" \in DOMAIN inputs[i].attrib
             THEN CollectInputs(inputs, i + 1, DictSet(data, inputs[i].attrib["name"], value))
             ELSE CollectInputs(inputs, i + 1, data)

FormDataFirstWins(form) == CollectFirstWins(form.inputs, 1, EmptyDict)

FormData(form) == CollectInputs(form.inputs, 1, EmptyDict)

Username == "alice"
Password == "hunter2"

UsernameCallbackLeaks(data) ==
    DictSet(DictSet(data, "user[login]", Username), "user[password]", Password)

\* _username_callback and _login_callback of create_login_session
UsernameCallback(data) == DictSet(data, "user[login]", Username)
LoginCallback(data) == DictSet(data, "user[password]", Password)

ApplyCallback(data_callback, data) ==
    IF data_callback = "username" THEN UsernameCallback(data)
    ELSE IF data_callback = "login" THEN LoginCallback(data)
    ELSE data

\* _submit_form up to the post: the exception raised, or the form chosen, the
\* url to post to and the data to post
PrepareSubmit(url, text, data_callback, form_matcher) ==
    LET forms == Parse(text)
        k == FindForm(forms, form_matcher)
    IN  IF k = 0
        THEN [err |-> "ValueError", form |-> 0, url |-> None, data |-> None]
        ELSE IF "action" \notin DOMAIN forms[k].attrib
        THEN [err |-> "KeyError", form |-> k, url |-> None, data |-> None]
        ELSE [err |-> None, form |-> k,
              url |-> UrlJoin(url, forms[k].attrib["action"]),
              data |-> ApplyCallback(data_callback, FormData(forms[k]))]

----------------------------------------------------------------------------
(* The documents and pages of the model.                                   *)

TokenName == "authenticity_token"

FormTags ==
    { FormTag(NoAttrib),
      FormTag("action" :> "/users/sign_in"),
      FormTag("action" :> "/users/sign_in/password") }

InputTags ==
    { InputTag(("name" :> TokenName) @@ ("value" :> "abc")),
      InputTag(("name" :> TokenName) @@ ("value" :> "def")),
      InputTag(("name" :> "utf8") @@ ("value" :> "abc")),
      InputTag(("name" :> TokenName) @@ ("value" :> "")),
      InputTag("name" :> TokenName),
      InputTag("value" :> "abc") }

Docs == SeqsUpTo(FormTags \cup InputTags, MaxNodes)

Matchers == {"any", "/users/sign_in/password"}

PageTags ==
    FormTags \cup
    { InputTag(("name" :> TokenName) @@ ("value" :> "abc")),
      InputTag(("name" :> TokenName) @@ ("value" :> "def")),
      InputTag(("name" :> "utf8") @@ ("value" :> "abc")),
      InputTag(("name" :> TokenName) @@ ("value" :> "")) }

Pages == SeqsUpTo(PageTags, MaxPageNodes)

\* a page without a form and the two pages of the sign-in flow
FlowPages ==
    { <<>>,
      << FormTag("action" :> "/users/sign_in"),
         InputTag(("name" :> TokenName) @@ ("value" :> "abc")) >>,
      << FormTag("action" :> "/users/sign_in/password"),
         InputTag(("name" :> TokenName) @@ ("value" :> "def")) >> }

\* the pages a login server may serve: those of the sign-in flow, or any page
PagesOf(server) == IF server = "flow" THEN FlowPages ELSE Pages

Response(url, text) == [url |-> url, text |-> text]

NoResponse == Response(None, <<>>)

----------------------------------------------------------------------------
(* _submit_form called directly, with the default data_callback.           *)

InitExtract ==
    /\ pc = "submit"
    /\ arg \in [url : {SignInUrl}, text : Docs, data_callback : {None},
                form_matcher : Matchers]
    /\ out = None
    /\ err = None
    /\ log = <<>>
    /\ resp = NoResponse
    /\ feed = <<>>
    /\ cal = <<>>
    /\ idx = 0
    /\ remote = <<>>
    /\ run = 0
    /\ exits = <<>>
    /\ session = CallerSession
    /\ web = "flow"

SubmitForm ==
    /\ pc = "submit"
    /\ LET p == PrepareSubmit(arg.url, arg.text, arg.data_callback, arg.form_matcher)
       IN  IF p.err # None
           THEN /\ err' = p.err
                /\ pc' = "error"
                /\ out' = [form |-> p.form]
                /\ UNCHANGED <<log, resp>>
           ELSE \E status \in Statuses :
                /\ log' = Append(log, Request(session, "POST", p.url, p.data, status))
                /\ err' = RaiseForStatus(status)
                /\ pc' = NextPc(err', "done")
                /\ out' = [form |-> p.form]
                /\ resp' = IF err' = None THEN Response(p.url, <<>>) ELSE resp
    /\ UNCHANGED <<feed, cal, idx, remote, run, exits, session, web, arg>>

NextExtract == SubmitForm

SpecExtract == InitExtract /\ [][NextExtract]_vars

----------------------------------------------------------------------------
(* Calendar entries and their translation.                                 *)

\* an aware datetime: an instant and the offset of its zone, in hours
DateTime(utc, off) == [utc |-> utc, off |-> off]

\* d.isoformat(timespec='seconds'): the local wall-clock time followed by the
\* UTC offset
DatetimeToString(d) == [local |-> d.utc + d.off, offset |-> d.off]

\* the instant an ISO-8601 string with offset denotes
StringInstant(str) == str.local - str.offset

Practice == <<"P", "r", "a", "c", "t", "i", "c", "e">>
PracticeLower == <<"p", "r", "a", "c", "t", "i", "c", "e">>
PracticeTitle == <<"(", "P", "r", "a", "c", "t", "i", "c", "e", ")", " ">>
GameTitle == <<"(", "G", "a", "m", "e", ")", " ">>

Contains(str, part) ==
    \E i \in 0..(Len(str) - Len(part)) : SubSeq(str, i + 1, i + Len(part)) = part

\* str.startswith(prefix)
StartsWith(str, prefix) ==
    Len(str) >= Len(prefix) /\ SubSeq(str, 1, Len(prefix)) = prefix

CreateEventDict(team_id, start_time, end_time, title) ==
    [event_type |-> "event",
     status |-> "scheduled",
     local_timezone |-> "America/Los_Angeles",
     with_notification |-> FALSE,
     principals |-> <<[id |-> team_id]>>,
     venue_id |-> None,
     subvenue_id |-> None,
     title |-> title,
     type |-> "event",
     tbd_time |-> FALSE,
     start_date_time |-> DatetimeToString(start_time),
     end_date_time |-> DatetimeToString(end_time)]

Component(name, props) == [name |-> name, props |-> props]

VEvent(start, end, summary, desc) ==
    Component("VEVENT",
        ("DTSTART" :> start) @@ ("DTEND" :> end) @@ ("SUMMARY" :> summary)
            @@ ("DESCRIPTION" :> desc))

IsPracticeAnywhere(desc) == Contains(desc, Practice)

\* desc.startswith('Practice')
IsPractice(desc) == StartsWith(desc, Practice)

\* the body of the for loop of main up to add_event: the exception raised, or
\* the data handed to add_event
EventFor(event, team_id) ==
    LET props == event.props
    IN  IF "DESCRIPTION" \notin DOMAIN props
        THEN [err |-> "AttributeError", data |-> None]
        ELSE IF "DTSTART" \notin DOMAIN props \/ "DTEND" \notin DOMAIN props
        THEN [err |-> "AttributeError", data |-> None]
        ELSE IF "SUMMARY" \notin DOMAIN props
        THEN [err |-> "TypeError", data |-> None]
        ELSE [err |-> None,
              data |-> CreateEventDict(team_id, props["DTSTART"], props["DTEND"],
                          IF IsPractice(props["DESCRIPTION"])
                          THEN PracticeTitle \o props["SUMMARY"]
                          ELSE GameTitle \o props["SUMMARY"])]

RECURSIVE WalkDistinct(_)
WalkDistinct(components) ==
    IF components = <<>> THEN <<>>
    ELSE LET rest == WalkDistinct(SubSeq(components, 1, Len(components) - 1))
             last == components[Len(components)]
         IN  IF last.name = "VEVENT" /\ \A i \in 1..Len(rest) : rest[i] # last
             THEN Append(rest, last) ELSE rest

\* cal.walk('VEVENT'): the VEVENT components in the calendar's order
Walk(components) == SelectSeq(components, LAMBDA c : c.name = "VEVENT")

TeamId == "team1"
CalendarUrl == Url("calendar-host", "/feed.ics")
ApiOrigin == "https://api.sportngin.com"
AddEventUrl(team_id) == Url(ApiOrigin, <<"v3", "calendar", "team", team_id, "event">>)

FeedComponents ==
    { VEvent(DateTime(25, -7), DateTime(26, -7), <<"L">>, Practice \o <<" ", "A">>),
      VEvent(DateTime(26, -7), DateTime(26, -7), <<"T">>, <<"G">>),
      Component("VEVENT", ("DTSTART" :> DateTime(25, -7)) @@ ("DTEND" :> DateTime(26, -7))
                              @@ ("SUMMARY" :> <<"N">>)),
      Component("VTIMEZONE", <<>>) }

Feeds == SeqsUpTo(FeedComponents, MaxEntries)

RedirectUrls == {SignInUrl, PasswordUrl}

----------------------------------------------------------------------------
(* main.                                                                   *)

Init ==
    /\ pc = "start"
    /\ feed \in Feeds
    /\ run = 1
    /\ exits = <<>>
    /\ remote = <<>>
    /\ err = None
    /\ log = <<>>
    /\ resp = NoResponse
    /\ cal = <<>>
    /\ idx = 0
    /\ session = NoSession
    /\ web = "flow"
    /\ arg = [session |-> NoSession]
    /\ out = None

\* s = requests.Session(); cal = Calendar.from_ical(s.get(calendar).text):
\* the body of an error response is no calendar
FetchCalendar ==
    /\ pc = "start"
    /\ \E status \in Statuses :
          /\ log' = Append(log, Request(CalendarSession, "GET", CalendarUrl, None, status))
          /\ IF status = 200
             THEN /\ cal' = feed
                  /\ pc' = "login_get"
                  /\ err' = None
             ELSE /\ cal' = cal
                  /\ pc' = "error"
                  /\ err' = "ValueError"
    /\ UNCHANGED <<resp, feed, idx, remote, run, exits, session, web, arg, out>>

\* session or requests.Session()
SessionOrNew(given) == IF given = NoSession THEN LoginSession ELSE given

\* create_login_session: the session, and _get_form of _get_and_submit_form
LoginGet ==
    /\ pc = "login_get"
    /\ session' = SessionOrNew(arg.session)
    /\ \E status \in Statuses, page \in PagesOf(web) :
          /\ log' = Append(log, Request(session', "GET", SignInUrl, None, status))
          /\ err' = RaiseForStatus(status)
          /\ pc' = NextPc(err', "login_post1")
          /\ resp' = IF err' = None THEN Response(SignInUrl, page) ELSE NoResponse
    /\ UNCHANGED <<feed, cal, idx, remote, run, exits, web, arg, out>>

\* _submit_form of _get_and_submit_form, with _username_callback
LoginPost1 ==
    /\ pc = "login_post1"
    /\ LET p == PrepareSubmit(SignInUrl, resp.text, "username", "any")
       IN  IF p.err # None
           THEN /\ err' = p.err
                /\ pc' = "error"
                /\ resp' = NoResponse
                /\ UNCHANGED log
           ELSE \E status \in Statuses, url \in RedirectUrls, page \in PagesOf(web) :
                /\ log' = Append(log, Request(session, "POST", p.url, p.data, status))
                /\ err' = RaiseForStatus(status)
                /\ pc' = NextPc(err', "login_post2")
                /\ resp' = IF err' = None THEN Response(url, page) ELSE NoResponse
    /\ UNCHANGED <<feed, cal, idx, remote, run, exits, session, web, arg, out>>

\* the second _submit_form of create_login_session, with _login_callback, and
\* the return of the session: to main (run > 0), which enters its for loop,
\* or to the caller
LoginPost2 ==
    /\ pc = "login_post2"
    /\ LET p == PrepareSubmit(resp.url, resp.text, "login", "any")
       IN  IF p.err # None
           THEN /\ err' = p.err
                /\ pc' = "error"
                /\ UNCHANGED <<log, idx, out>>
           ELSE \E status \in Statuses :
                /\ log' = Append(log, Request(session, "POST", p.url, p.data, status))
                /\ err' = RaiseForStatus(status)
                /\ pc' = NextPc(err', IF run > 0 THEN "loop" ELSE "done")
                /\ idx' = IF err' = None /\ run > 0 THEN 1 ELSE idx
                /\ out' = IF err' = None /\ run = 0 THEN session ELSE out
    /\ resp' = NoResponse
    /\ UNCHANGED <<feed, cal, remote, run, exits, session, web, arg>>

AddEventSessionOfFeed(calendar_session, login_session) == calendar_session

\* session = create_login_session(...); add_event(session=session, ...)
AddEventSession(calendar_session, login_session) == login_session

AfterAddEventRetrying(e) == "loop"

\* the for loop of main has no try around add_event: its exception ends main,
\* and without one the loop goes on
AfterAddEvent(e) == NextPc(e, "loop")

\* one iteration of the for loop of main: the event dict, then add_event
SyncEntry ==
    /\ pc = "loop"
    /\ idx <= Len(Walk(cal))
    /\ LET t == EventFor(Walk(cal)[idx], TeamId)
       IN  IF t.err # None
           THEN /\ err' = t.err
                /\ pc' = "error"
                /\ UNCHANGED <<log, remote, idx>>
           ELSE \E status \in Statuses, json \in BOOLEAN :
                /\ log' = Append(log, Request(AddEventSession(CalendarSession, session), "POST",
                                               AddEventUrl(TeamId), t.data, status))
                /\ remote' = IF status < 400 THEN Append(remote, t.data) ELSE remote
                /\ err' = IF RaiseForStatus(status) # None THEN RaiseForStatus(status)
                          ELSE IF json THEN None ELSE "JSONDecodeError"
                /\ pc' = AfterAddEvent(err')
                /\ idx' = IF err' = None THEN idx + 1 ELSE idx
    /\ UNCHANGED <<resp, feed, cal, run, exits, session, web, arg, out>>

\* the for loop of main is exhausted and main returns
SyncDone ==
    /\ pc = "loop"
    /\ idx > Len(Walk(cal))
    /\ pc' = "done"
    /\ UNCHANGED <<err, log, resp, feed, cal, idx, remote, run, exits, session, web, arg, out>>

\* the program is run again against the same platform and the same feed
RunAgain ==
    /\ pc \in {"done", "error"}
    /\ run < MaxRuns
    /\ run' = run + 1
    /\ exits' = Append(exits, pc)
    /\ pc' = "start"
    /\ err' = None
    /\ log' = <<>>
    /\ resp' = NoResponse
    /\ cal' = <<>>
    /\ idx' = 0
    /\ session' = NoSession
    /\ UNCHANGED <<feed, remote, web, arg, out>>

Next ==
    \/ FetchCalendar
    \/ LoginGet
    \/ LoginPost1
    \/ LoginPost2
    \/ SyncEntry
    \/ SyncDone
    \/ RunAgain

Spec == Init /\ [][Next]_vars

----------------------------------------------------------------------------
(* create_login_session called directly, with a session of the caller's or *)
(* without one.                                                            *)

InitLogin ==
    /\ pc = "login_get"
    /\ arg \in [session : {NoSession, CallerSession}]
    /\ web = "any"
    /\ run = 0
    /\ exits = <<>>
    /\ remote = <<>>
    /\ err = None
    /\ log = <<>>
    /\ resp = NoResponse
    /\ feed = <<>>
    /\ cal = <<>>
    /\ idx = 0
    /\ session = NoSession
    /\ out = None

NextLogin ==
    \/ LoginGet
    \/ LoginPost1
    \/ LoginPost2

SpecLogin == InitLogin /\ [][NextLogin]_vars

----------------------------------------------------------------------------
(* The form code, entered through _submit_form or through                  *)
(* create_login_session.                                                   *)

InitForms == InitExtract \/ InitLogin

NextForms == NextExtract \/ NextLogin

SpecForms == InitForms /\ [][NextForms]_vars

----------------------------------------------------------------------------
(* The for loop of main over a feed of one event, entered after a login    *)
(* that succeeded.                                                         *)

DateTimes == {DateTime(25, -7), DateTime(26, -7), DateTime(26, -8)}

Summaries == {<<"L">>, <<>>}

Descriptions ==
    { Practice,
      Practice \o <<" ", "A">>,
      PracticeLower \o <<" ", "A">>,
      <<"A", " ">> \o Practice,
      SubSeq(Practice, 1, 7),
      <<"G">>,
      <<>> }

Events ==
    {VEvent(start, end, summary, desc) :
        start \in DateTimes, end \in DateTimes, summary \in Summaries, desc \in Descriptions}
    \cup {Component("VEVENT", ("DTSTART" :> DateTime(25, -7)) @@ ("DTEND" :> DateTime(26, -7))
                                  @@ ("SUMMARY" :> <<"L">>))}

LoggedIn ==
    << Request(CalendarSession, "GET", CalendarUrl, None, 200),
       Request(LoginSession, "GET", SignInUrl, None, 200),
       Request(LoginSession, "POST", SignInUrl,
               UsernameCallback((TokenName :> "abc")), 200),
       Request(LoginSession, "POST", PasswordUrl,
               LoginCallback((TokenName :> "def")), 200) >>

InitSync ==
    /\ pc = "loop"
    /\ feed \in {<<e>> : e \in Events}
    /\ cal = feed
    /\ idx = 1
    /\ run = 1
    /\ exits = <<>>
    /\ remote = <<>>
    /\ err = None
    /\ log = LoggedIn
    /\ resp = NoResponse
    /\ session = LoginSession
    /\ web = "flow"
    /\ arg = [session |-> NoSession]
    /\ out = None

NextSync ==
    \/ SyncEntry
    \/ SyncDone

SpecSync == InitSync /\ [][NextSync]_vars

----------------------------------------------------------------------------
(* _find_first_opponent called directly.                                   *)

ListOpponentUrl(team_id) == Url(ApiOrigin, <<"v3", "teams", team_id, "opponents">>)

Tigers == <<"T", "i">>

Opponents ==
    { [id |-> 1, name |-> Tigers],
      [id |-> 2, name |-> Tigers],
      [id |-> 3, name |-> <<"t", "i">>],
      [id |-> 4, name |-> <<"T">>],
      [id |-> 5, name |-> <<"T", "i", "g">>],
      [id |-> 6] }

Listings == SeqsUpTo(Opponents, MaxOpponents)

Lower(c) == IF c = "T" THEN "t" ELSE c

NameEqualsIgnoreCase(o, opponent_name) ==
    /\ "name" \in DOMAIN o
    /\ Len(o.name) = Len(opponent_name)
    /\ \A i \in 1..Len(o.name) : Lower(o.name[i]) = Lower(opponent_name[i])

\* o.get('name') == opponent_name
NameEquals(o, opponent_name) == "name" \in DOMAIN o /\ o.name = opponent_name

RECURSIVE ScanOpponents(_, _, _)
\* the for loop of _find_first_opponent: the first match, or None
ScanOpponents(result, opponent_name, i) ==
    IF i > Len(result) THEN [found |-> FALSE]
    ELSE IF NameEquals(result[i], opponent_name)
    THEN [found |-> TRUE, opponent |-> result[i]]
    ELSE ScanOpponents(result, opponent_name, i + 1)

InitFind ==
    /\ pc = "find"
    /\ arg \in [team_id : {TeamId}, opponent_name : {Tigers, <<"t", "i">>}]
    /\ session = CallerSession
    /\ out = None
    /\ err = None
    /\ log = <<>>
    /\ resp = NoResponse
    /\ feed = <<>>
    /\ cal = <<>>
    /\ idx = 0
    /\ remote = <<>>
    /\ run = 0
    /\ exits = <<>>
    /\ web = "flow"

\* _find_first_opponent: list_opponents, then the scan of its 'result'; a
\* response without 'result' makes the for loop raise TypeError
FindFirstOpponent ==
    /\ pc = "find"
    /\ \E status \in Statuses, json \in {[result |-> l] : l \in Listings} \cup {[error |-> "x"]} :
          /\ log' = Append(log, Request(session, "GET", ListOpponentUrl(arg.team_id), None, status))
          /\ err' = IF RaiseForStatus(status) # None THEN RaiseForStatus(status)
                    ELSE IF "result" \notin DOMAIN json THEN "TypeError"
                    ELSE None
          /\ pc' = NextPc(err', "done")
          /\ resp' = IF RaiseForStatus(status) # None THEN resp ELSE json
          /\ out' = IF err' = None
                    THEN ScanOpponents(json.result, arg.opponent_name, 1)
                    ELSE out
    /\ UNCHANGED <<feed, cal, idx, remote, run, exits, session, web, arg>>

NextFind == FindFirstOpponent

SpecFind == InitFind /\ [][NextFind]_vars

----------------------------------------------------------------------------
(* What a text holds, read off the text itself: the vocabulary of the      *)
(* properties below.                                                       *)

FormPositions(text) == {i \in 1..Len(text) : text[i].tag = "form"}

AcceptedPositions(text, form_matcher) ==
    {i \in FormPositions(text) :
        \/ form_matcher = "any"
        \/ /\ "action" \in DOMAIN text[i].attrib
           /\ text[i].attrib["action"] = form_matcher}

FirstAccepted(text, form_matcher) ==
    CHOOSE i \in AcceptedPositions(text, form_matcher) :
        \A j \in AcceptedPositions(text, form_matcher) : i <= j

\* the positions of the inputs of the first accepted form that have a name
\* attribute and a non-empty value
FieldPositions(text, form_matcher) ==
    {j \in 1..Len(text) :
        /\ j > FirstAccepted(text, form_matcher)
        /\ text[j].tag = "input"
        /\ ~ \E q \in FormPositions(text) : FirstAccepted(text, form_matcher) < q /\ q < j
        /\ "name" \in DOMAIN text[j].attrib
        /\ "value" \in DOMAIN text[j].attrib
        /\ text[j].attrib["value"] # ""}

FieldName(text, j) == text[j].attrib["name"]
FieldValue(text, j) == text[j].attrib["value"]

\* data has one key per name among the fields, each with the value of the
\* last field of that name, and besides them only the key extra, if any
IsLastValues(data, text, form_matcher, extra) ==
    LET fields == FieldPositions(text, form_matcher)
    IN  /\ DOMAIN data = {FieldName(text, j) : j \in fields} \cup extra
        /\ \A j \in fields :
               (/\ FieldName(text, j) \notin extra
                /\ \A k \in fields : FieldName(text, k) = FieldName(text, j) => k <= j)
               => data[FieldName(text, j)] = FieldValue(text, j)

Pairs(data) == {<<n, data[n]>> : n \in DOMAIN data}

IsCreateEvent(request) == request.method = "POST" /\ request.url.origin = ApiOrigin

----------------------------------------------------------------------------
(* _submit_form, under SpecExtract.                                        *)

\* C5 as stated: the data posted is exactly the set of (name, value) pairs of
\* the inputs of the first accepted form that have a name and a non-empty
\* value.
C5_ExactPairs ==
    Len(log) = 1 =>
        Pairs(log[1].data) =
            {<<FieldName(arg.text, j), FieldValue(arg.text, j)>> :
                j \in FieldPositions(arg.text, arg.form_matcher)}

\* C5 amended: the form chosen is the first accepted form in document order;
\* if it has an action it is posted once, with one field per name among its
\* named, non-empty-valued inputs, each carrying the value of the last such
\* input of that name, and nothing else; if it has no action, KeyError is
\* raised and nothing is posted.
C5_FirstFormLastValue ==
    (pc # "submit" /\ AcceptedPositions(arg.text, arg.form_matcher) # {}) =>
        LET first == FirstAccepted(arg.text, arg.form_matcher)
        IN  /\ out.form = Cardinality({q \in FormPositions(arg.text) : q <= first})
            /\ IF "action" \in DOMAIN arg.text[first].attrib
               THEN /\ Len(log) = 1
                    /\ log[1].method = "POST"
                    /\ log[1].url.path = arg.text[first].attrib["action"]
                    /\ IsLastValues(log[1].data, arg.text, arg.form_matcher, {})
               ELSE err = "KeyError" /\ log = <<>>

\* a second form was chosen over a first one the matcher rejects, and two of
\* its inputs carry the same name with different values
C5_Witness ==
    /\ pc = "done"
    /\ out.form = 2
    /\ Len(log) = 1
    /\ \E j, k \in FieldPositions(arg.text, arg.form_matcher) :
          /\ j < k
          /\ FieldName(arg.text, j) = FieldName(arg.text, k)
          /\ FieldValue(arg.text, j) # FieldValue(arg.text, k)
          /\ log[1].data[FieldName(arg.text, k)] = FieldValue(arg.text, k)

----------------------------------------------------------------------------
(* create_login_session, under SpecLogin.                                  *)

LastRequest(requests) == requests[Len(requests)]

\* C1 as stated: a login that succeeded issued GET, POST #1 and POST #2 on
\* one session, POST #1 with user[login], POST #2 with user[password]; no
\* field extracted at step 1 is sent in POST #2 and the password is not sent
\* in POST #1.
C1_NoStepOneFieldInPostTwo ==
    pc = "done" =>
        /\ Len(log) = 3
        /\ log[1].method = "GET" /\ log[2].method = "POST" /\ log[3].method = "POST"
        /\ log[1].sess = log[2].sess /\ log[2].sess = log[3].sess
        /\ log[2].data["user[login]"] = Username
        /\ log[3].data["user[password]"] = Password
        /\ \A n \in DOMAIN log[2].data \ {"user[login]"} :
               ~ (n \in DOMAIN log[3].data /\ log[3].data[n] = log[2].data[n])
        /\ \A n \in DOMAIN log[2].data : n # "user[password]" /\ log[2].data[n] # Password

\* C1 amended: a login that succeeds issues exactly GET of the login URL,
\* POST #1 and POST #2, in this order, on one session.  POST #1 carries
\* exactly the fields of the form of the GET response plus
\* user[login]=username; POST #2 carries exactly the fields of the form of
\* the response to POST #1 plus user[password]=password.  So a field of step 1
\* is in POST #2 only if the second form has it too, and POST #1 holds nothing
\* but the first form's fields and the username.
C1_LoginRequests ==
    [][ /\ (pc = "login_post1" /\ log' # log) =>
              /\ Len(log') = 2
              /\ LastRequest(log').method = "POST"
              /\ LastRequest(log').sess = log[1].sess
              /\ IsLastValues(LastRequest(log').data, resp.text, "any", {"user[login]"})
              /\ LastRequest(log').data["user[login]"] = Username
        /\ (pc = "login_post2" /\ log' # log) =>
              /\ Len(log') = 3
              /\ LastRequest(log').method = "POST"
              /\ LastRequest(log').sess = log[1].sess
              /\ IsLastValues(LastRequest(log').data, resp.text, "any", {"user[password]"})
              /\ LastRequest(log').data["user[password]"] = Password
        /\ (pc' = "done" /\ pc # "done") =>
              /\ Len(log') = 3
              /\ log'[1].method = "GET" /\ log'[1].url = SignInUrl
              /\ \A i \in 1..3 : log'[i].sess = out' /\ log'[i].status < 400
              /\ out' = IF arg.session = NoSession THEN LoginSession ELSE arg.session
      ]_vars

\* the login of the two-page flow succeeded: POST #1 took the token abc of
\* page 1, POST #2 the token def of page 2
C1_Witness ==
    /\ pc = "done"
    /\ run = 0
    /\ Len(log) = 3
    /\ log[2].data = (TokenName :> "abc") @@ ("user[login]" :> Username)
    /\ log[3].data = (TokenName :> "def") @@ ("user[password]" :> Password)
    /\ log[2].url = SignInUrl
    /\ log[3].url = PasswordUrl

\* C10: the login issues at most GET, POST #1, POST #2, each once and in this
\* order, and a request answered with an error status is the last one: the
\* login ends with HTTPError, so no POST follows a failed GET and the password
\* is not sent after a failed POST #1.
C10_AbortOnErrorStatus ==
    /\ Len(log) <= 3
    /\ \A i \in 1..Len(log) :
          /\ log[i].method = IF i = 1 THEN "GET" ELSE "POST"
          /\ (i = 2 => log[i].data["user[login]"] = Username)
          /\ (i = 3 => log[i].data["user[password]"] = Password)
          /\ (i = 2 => "user[password]" \notin DOMAIN log[i].data)
          /\ (log[i].status >= 400 =>
                 i = Len(log) /\ pc = "error" /\ err = "HTTPError" /\ out = None)

\* POST #1 was answered with an error status and the login stopped there
C10_Witness ==
    /\ pc = "error"
    /\ err = "HTTPError"
    /\ Len(log) = 2
    /\ log[1].status < 400
    /\ log[2].status >= 400

----------------------------------------------------------------------------
(* The form code, under SpecForms.                                         *)

\* C6: on a text with no form, or with no form the matcher accepts,
\* _submit_form raises the form-not-found error (ValueError) and posts
\* nothing; at either step of the login the error ends the login.
C6_FormNotFound ==
    [][ /\ (pc = "submit" /\ AcceptedPositions(arg.text, arg.form_matcher) = {}) =>
              pc' = "error" /\ err' = "ValueError" /\ log' = log
        /\ (pc \in {"login_post1", "login_post2"} /\ FormPositions(resp.text) = {}) =>
              pc' = "error" /\ err' = "ValueError" /\ log' = log /\ out' = None
      ]_vars

\* the page answering POST #1 had no form and the login ended with the error
C6_Witness ==
    /\ pc = "error"
    /\ err = "ValueError"
    /\ run = 0
    /\ Len(log) = 2
    /\ log[2].status < 400

----------------------------------------------------------------------------
(* main, under Spec.  The first request of a run fetches the calendar, the *)
(* next three are the login, the rest are add_event calls.                 *)

VEvents(components) == SelectSeq(components, LAMBDA c : c.name = "VEVENT")

CreateEventCalls == {i \in 1..Len(log) : IsCreateEvent(log[i])}

\* C7: an add_event call is issued only after the three login requests were
\* issued and answered without error, and on the session of that login; a run
\* whose login failed issues none.
C7_LoginBeforeCreateEvent ==
    /\ \A i \in CreateEventCalls :
          /\ i > 4
          /\ log[2].method = "GET" /\ log[2].url = SignInUrl
          /\ log[3].method = "POST" /\ log[3].data["user[login]"] = Username
          /\ log[4].method = "POST" /\ log[4].data["user[password]"] = Password
          /\ \A j \in 2..4 : log[j].status < 400 /\ log[j].sess = log[i].sess
          /\ log[i].sess = session
    /\ (pc = "error" /\ idx = 0) => CreateEventCalls = {}

\* a run that logged in and then created an event
C7_Witness ==
    /\ pc = "done"
    /\ Len(log) = 6
    /\ IsCreateEvent(log[5])
    /\ IsCreateEvent(log[6])

\* C2: the add_event calls of a run are those for the entries in order, each
\* once, and only the last of them can have failed: after a failure nothing
\* more is requested and nothing is requested again.  A run that failed at
\* entry N has issued the calls for the entries before N, which succeeded and
\* whose events are on the platform, at most the call for N itself and none
\* for a later entry, and it ended with the error.
C2_FailFast ==
    LET events == VEvents(cal)
        okCalls == {i \in CreateEventCalls : log[i].status < 400}
    IN  /\ \A i \in CreateEventCalls :
              /\ i > 4
              /\ i - 4 <= Len(events)
              /\ log[i].data = EventFor(events[i - 4], TeamId).data
              /\ (log[i].status >= 400 =>
                     i = Len(log) /\ pc = "error" /\ err = "HTTPError" /\ idx = i - 4)
        /\ Len(remote) >= Cardinality(okCalls)
        /\ \A i \in okCalls :
              remote[Len(remote) - Cardinality({j \in okCalls : j >= i}) + 1] = log[i].data
        /\ (pc = "error" /\ idx >= 1) =>
              /\ err # None
              /\ Len(log) \in {4 + idx - 1, 4 + idx}
              /\ \A k \in 1..(idx - 1) : log[4 + k].status < 400

\* the second of two entries failed with an error status: the first one's
\* event is on the platform
C2_Witness ==
    /\ pc = "error"
    /\ err = "HTTPError"
    /\ idx = 2
    /\ Len(VEvents(cal)) = 2
    /\ Len(log) = 6
    /\ log[5].status < 400
    /\ log[6].status >= 400
    /\ Len(remote) >= 1
    /\ remote[Len(remote)] = log[5].data

\* C3: a run that ends without error has issued exactly one add_event call
\* per calendar entry, in the calendar's order, and has listed nothing of the
\* platform; when all runs so far ended without error, the platform holds the
\* events of the feed once per run.
C3_OnePerEntryNoDedup ==
    pc = "done" =>
        LET events == VEvents(feed)
        IN  /\ Len(log) = 4 + Len(events)
            /\ \A k \in 1..Len(events) :
                  /\ IsCreateEvent(log[4 + k])
                  /\ log[4 + k].data = EventFor(events[k], TeamId).data
            /\ \A i \in 1..4 : ~ (log[i].method = "GET" /\ log[i].url.origin = ApiOrigin)
            /\ (\A r \in 1..Len(exits) : exits[r] = "done") =>
                  /\ Len(remote) = run * Len(events)
                  /\ \A j \in 1..Len(remote) :
                        remote[j] = EventFor(events[((j - 1) % Len(events)) + 1], TeamId).data

\* the second run over a feed of two entries ended: four events
C3_Witness ==
    /\ pc = "done"
    /\ run = 2
    /\ exits = <<"done">>
    /\ Len(VEvents(feed)) = 2
    /\ Len(remote) = 4
    /\ remote[1] = remote[3]
    /\ remote[2] = remote[4]

----------------------------------------------------------------------------
(* The for loop of main, under SpecSync.                                   *)

HasPracticePrefix(desc) ==
    /\ Len(desc) >= Len(Practice)
    /\ \A i \in 1..Len(Practice) : desc[i] = Practice[i]

\* C4: the event handed to add_event for an entry whose description starts
\* with "Practice" is titled "(Practice) " + summary; for any other non-empty
\* description it is titled "(Game) " + summary, whatever the summary, the
\* start and the end.
C4_TitleByDescriptionPrefix ==
    ((pc # "loop" \/ idx > 1) /\ "DESCRIPTION" \in DOMAIN cal[1].props) =>
        LET desc == cal[1].props["DESCRIPTION"]
            summary == cal[1].props["SUMMARY"]
        IN  /\ Len(log) = 5
            /\ IsCreateEvent(log[5])
            /\ (HasPracticePrefix(desc) => log[5].data.title = PracticeTitle \o summary)
            /\ ((~ HasPracticePrefix(desc) /\ desc # <<>>) =>
                   log[5].data.title = GameTitle \o summary)

\* an entry whose description holds "Practice", but not at its start, was
\* sent as a game
C4_Witness ==
    /\ Len(log) = 5
    /\ cal[1].props["DESCRIPTION"] = <<"A", " ">> \o Practice
    /\ cal[1].props["SUMMARY"] = <<"L">>
    /\ log[5].data.title = GameTitle \o <<"L">>

\* C8: every event handed to add_event starts before it ends.
C8_StartBeforeEnd ==
    \A i \in CreateEventCalls :
        StringInstant(log[i].data.start_date_time) < StringInstant(log[i].data.end_date_time)

----------------------------------------------------------------------------
(* _find_first_opponent, under SpecFind.                                   *)

ExactMatches(result, opponent_name) ==
    {i \in 1..Len(result) : "name" \in DOMAIN result[i] /\ result[i].name = opponent_name}

\* C9: _find_first_opponent returns the first opponent of the listing whose
\* name equals the query exactly, and None when no listed name does.
C9_FirstExactMatch ==
    pc = "done" =>
        LET matches == ExactMatches(resp.result, arg.opponent_name)
        IN  /\ out.found = (matches # {})
            /\ out.found =>
                  \E i \in matches :
                      /\ \A j \in matches : i <= j
                      /\ out.opponent = resp.result[i]

\* nothing is returned for the query "Ti" although the listing holds "ti",
\* "T" and "Tig"
C9_Witness ==
    /\ pc = "done"
    /\ arg.opponent_name = Tigers
    /\ ~ out.found
    /\ resp.result = << [id |-> 3, name |-> <<"t", "i">>],
                        [id |-> 4, name |-> <<"T">>],
                        [id |-> 5, name |-> <<"T", "i", "g">>] >>

====
